---- MODULE Spec2Model ----
(***************************************************************************)
(* Promptune intent detection: the UserPromptSubmit hook (main), the       *)
(* 3-tier cascade (PromptuneDetector.detect), the Haiku arbitration step   *)
(* and the observability store rows the hook writes.                       *)
(*                                                                         *)
(* Confidences are percentages (0.95 is 95).  A prompt is a sequence of    *)
(* text fragments; the text of a fragment is the string itself.            *)
(***************************************************************************)
EXTENDS Integers, Sequences, FiniteSets, TLC

VARIABLES
    pc,              \* position of main()
    event,           \* what stdin holds: "badjson", "nondict", "noprompt", "nonstr", "ok"
    prompt,          \* event["prompt"] when it is a string
    stdout,          \* the JSON objects printed to stdout, in order
    exc,             \* where the exception caught by main's handler was raised ("none" if none)
    det,             \* PromptuneDetector: _keyword, _model2vec, _semantic
    m2v,             \* the Model2VecMatcher instance: _model, _intent_embeddings, _model_load_attempted
    trace,           \* matcher constructions and match() calls of the detect call, in order,
                     \* each with what it returned
    match,           \* detect's result
    should_run_haiku,\* main's local of that name (FALSE before line 777)
    arb,             \* arbitration subprocess: "idle", "running", "returned", "timeout", "nonzero", "unparseable"
    haiku_analysis,  \* main's local of that name
    best_command,    \* main's local of that name
    correction_accepted,
    detection_count, \* main's local of that name
    store,           \* .promptune/observability.db: the committed contents of its tables
    corr0,           \* number of model_corrections rows when the process started
    store0,          \* the store's contents when the process started
    proc,            \* the processes (or threads) calling the store: what each is doing
    clock,           \* time.time()
    wlock            \* the process holding the database's write lock (0 if none)

vars == <<pc, event, prompt, stdout, exc, det, m2v, trace, match,
          should_run_haiku, arb, haiku_analysis, best_command, correction_accepted,
          detection_count, store, corr0, store0, proc, clock, wlock>>

(***************************************************************************)
(* Bounds of the model.                                                    *)
(***************************************************************************)
MaxLen == 2        \* fragments per prompt
MaxCalls == 3      \* calls made on one matcher, detector or store
NProcs == 2        \* processes sharing the store
NWriters == 4      \* concurrent log_correction writers

(***************************************************************************)
(* Program constants.                                                      *)
(***************************************************************************)
MIN_WORDS == 3                 \* should_process: len(prompt.strip().split()) < 3
KEYWORD_THRESHOLD == 70        \* KeywordMatcherV2.match: best_score >= 0.70
CONFIDENCE_THRESHOLD == 50     \* Model2VecMatcher.CONFIDENCE_THRESHOLD
DEFAULT_ROUTE_CONFIDENCE == 85 \* SemanticRouterMatcher.match: 0.85 when no score
HOOK_CUTOFF == 70              \* main: match.confidence < 0.7
HAIKU_CUTOFF == 95             \* main: match.confidence < 0.95

\* Python's None where a string is expected
None == "None"

(***************************************************************************)
(* Prompts.                                                                *)
(***************************************************************************)
HaikuPrefix == "You are a prompt enhancement assistant"

Fragments ==
    {" ", "/", "fix bug", "design the system", HaikuPrefix,
     "commit my changes", "use foo skill"}

\* number of whitespace-separated words in a fragment
WordsIn(f) ==
    CASE f = " " -> 0
      [] f = "/" -> 1
      [] f = "fix bug" -> 2
      [] f = "design the system" -> 3
      [] f = HaikuPrefix -> 6
      [] f = "commit my changes" -> 3
      [] f = "use foo skill" -> 3

Prompts == UNION {[1..n -> Fragments] : n \in 0..MaxLen}

\* str.strip(): drop leading and trailing whitespace
RECURSIVE lstrip(_)
lstrip(p) == IF p # <<>> /\ Head(p) = " " THEN lstrip(Tail(p)) ELSE p

RECURSIVE rstrip(_)
rstrip(p) ==
    IF p # <<>> /\ p[Len(p)] = " " THEN rstrip(SubSeq(p, 1, Len(p) - 1)) ELSE p

strip(p) == rstrip(lstrip(p))

\* len(s.split()): adjacent fragments with no whitespace between them join
\* their last and first word into one
split_len(p) ==
    LET words == {i \in 1..Len(p) : p[i] # " "}
        joins == {i \in 1..(Len(p) - 1) : p[i] # " " /\ p[i + 1] # " "}
        RECURSIVE Sum(_)
        Sum(S) == IF S = {} THEN 0
                  ELSE LET i == CHOOSE x \in S : TRUE
                       IN WordsIn(p[i]) + Sum(S \ {i})
    IN Sum(words) - Cardinality(joins)

\* s.startswith(t) for a text t that only the fragment t itself begins with
startswith(p, t) == p # <<>> /\ Head(p) = t

\* should_process without the length check
should_process_any_length(p) ==
    IF p = <<>> \/ strip(p) = <<>> THEN FALSE
    ELSE IF startswith(strip(p), "/") THEN FALSE
    ELSE IF startswith(p, HaikuPrefix) THEN FALSE
    ELSE TRUE

\* should_process without the test for the analysis prompt
should_process_own_prompt(p) ==
    IF p = <<>> \/ strip(p) = <<>> THEN FALSE
    ELSE IF startswith(strip(p), "/") THEN FALSE
    ELSE IF split_len(strip(p)) < MIN_WORDS THEN FALSE
    ELSE TRUE

should_process(p) ==
    IF p = <<>> \/ strip(p) = <<>> THEN FALSE
    ELSE IF startswith(strip(p), "/") THEN FALSE
    ELSE IF startswith(p, HaikuPrefix) THEN FALSE
    ELSE IF split_len(strip(p)) < MIN_WORDS THEN FALSE
    ELSE TRUE

\* r'\b(commit|save|push|commit.*push|push.*commit)\b' is the only pattern a
\* fragment can hit: "commit" at a word boundary.  Returns <<is_git_workflow, command>>
detect_git_workflow(p) ==
    IF \E i \in 1..Len(p) :
          /\ p[i] = "commit my changes"
          /\ (i = 1 \/ p[i - 1] \in {" ", "/"})
    THEN <<TRUE, "/ctx:git-commit">>
    ELSE <<FALSE, None>>

\* r'use (?:the )?([a-z\-:]+) skill' is the only pattern a fragment can hit
detect_skill_invocation(p) ==
    IF \E i \in 1..Len(p) : p[i] = "use foo skill"
    THEN <<TRUE, "foo">>
    ELSE <<FALSE, "">>

(***************************************************************************)
(* Responses.                                                              *)
(***************************************************************************)
\* additionalContext is the message as its parts, <<>> when the key is absent
PassThrough == [continue |-> TRUE, suppressOutput |-> TRUE, additionalContext |-> <<>>]
Feedback(kind) == [continue |-> TRUE, suppressOutput |-> FALSE, additionalContext |-> <<kind>>]

print_response(r) == stdout' = Append(stdout, r)

(***************************************************************************)
(* Matchers.  What a tier scores on a given text depends on vocabulary,    *)
(* embedding model and encoder service: the score and the command are      *)
(* drawn from small sets, the thresholds are the code's.                   *)
(***************************************************************************)
ConfLevels == {0, 49, 50, 69, 70, 94, 95}

Tier1Commands == {"/ctx:design"}
Tier2Commands == {"/sc:build"}
Tier3Commands == {"/sc:analyze"}

IntentMatch(command, confidence, method) ==
    [command |-> command, confidence |-> confidence, method |-> method]

\* Python's None where an IntentMatch is expected, and a match() call that raised
NoMatch == IntentMatch(None, 0, "none")
Raised == IntentMatch(None, 0, "raised")

\* KeywordMatcherV2.match once the scan has found best_match with best_score
KeywordMatcherV2_match(best_match, best_score) ==
    IF best_match # None /\ best_score >= KEYWORD_THRESHOLD
    THEN IntentMatch(best_match, best_score, "fuzzy")
    ELSE NoMatch

\* Model2VecMatcher.match once the scan has found best_command with best_confidence
\* (best_command stays None unless a similarity exceeded 0.0)
Model2VecMatcher_match(command, best_confidence) ==
    IF best_confidence >= CONFIDENCE_THRESHOLD /\ best_confidence > 0 /\ command # None
    THEN IntentMatch(command, best_confidence, "model2vec")
    ELSE NoMatch

\* SemanticRouterMatcher.match on a route choice: name None means no route;
\* a missing (None, drawn as 0) or zero similarity_score gives the default confidence
SemanticRouterMatcher_match(name, similarity_score) ==
    IF name = None THEN NoMatch
    ELSE IntentMatch(name,
                     IF similarity_score # 0
                     THEN similarity_score ELSE DEFAULT_ROUTE_CONFIDENCE,
                     "semantic_router")

Event(op, tier, ret) == [op |-> op, tier |-> tier, ret |-> ret]

\* detect without the early return, and detect returning after the first tier
after_tier_no_return(result, next) == next
after_tier_always_return(result, next) == "detected"

\* "if result: return result": where detect goes after a tier returned result
after_tier(result, next) == IF result # NoMatch THEN "detected" ELSE next

(***************************************************************************)
(* The observability store.                                                *)
(***************************************************************************)
\* a detection_history row (its AUTOINCREMENT id is its position in the table);
\* set_detection's INSERT names no session_id column, which stays NULL
DetectionRow(m, timestamp) ==
    [command |-> m.command, confidence |-> m.confidence, method |-> m.method,
     timestamp |-> timestamp, session_id |-> None]

\* a current_detection row
CurrentRow(id, m, timestamp) ==
    [id |-> id, command |-> m.command, confidence |-> m.confidence,
     method |-> m.method, timestamp |-> timestamp]

\* a plain INSERT into a table that has no primary key
insert_keeping(table, row) == table \cup {row}

\* INSERT OR REPLACE INTO a table with id INTEGER PRIMARY KEY: the row with
\* the same id is deleted, then the new row is inserted
insert_or_replace(table, row) == {r \in table : r.id # row.id} \cup {row}

\* DELETE FROM table WHERE id = ?
delete_where_id(table, id) == {r \in table : r.id # id}

\* set_detection that writes no history row
set_detection_current_only(db, m, timestamp) ==
    [db EXCEPT !.current_detection = insert_or_replace(@, CurrentRow(1, m, timestamp))]

\* the two statements of set_detection, committed together
set_detection(db, m, timestamp) ==
    [db EXCEPT !.current_detection = insert_or_replace(@, CurrentRow(1, m, timestamp)),
               !.detection_history = Append(@, DetectionRow(m, timestamp))]

\* clear_detection that empties the history as well
clear_detection_and_history(db) ==
    [db EXCEPT !.current_detection = delete_where_id(@, 1), !.detection_history = <<>>]

clear_detection(db) ==
    [db EXCEPT !.current_detection = delete_where_id(@, 1)]

log_performance(db, component, latency_ms) ==
    [db EXCEPT !.performance_metrics =
        Append(@, [component |-> component, latency_ms |-> latency_ms])]

log_matcher_performance(db, method) ==
    [db EXCEPT !.matcher_performance = Append(@, method)]

log_error(db, component) == [db EXCEPT !.error_logs = Append(@, component)]

\* the rates of the cost calculation, in 1e-8 USD per token:
\* $0.25 and $1.25 per million tokens
INPUT_RATE == 25
OUTPUT_RATE == 125

\* a cost that charges every token at the input rate
total_cost_flat_rate(prompt_tokens, completion_tokens) ==
    (prompt_tokens + completion_tokens) * INPUT_RATE

\* input_cost = (prompt_tokens * 0.25) / 1_000_000
\* output_cost = (completion_tokens * 1.25) / 1_000_000
\* total_cost_usd = input_cost + output_cost         (in 1e-8 USD)
total_cost_usd(prompt_tokens, completion_tokens) ==
    LET input_cost == prompt_tokens * INPUT_RATE
        output_cost == completion_tokens * OUTPUT_RATE
    IN input_cost + output_cost

\* the model_corrections row log_correction inserts
CorrectionRecord(original_command, corrected_command, original_confidence, accepted, prompt_tokens, completion_tokens) ==
    [original_command |-> original_command,
     corrected_command |-> corrected_command,
     original_confidence |-> original_confidence,
     correction_accepted |-> accepted,
     prompt_tokens |-> prompt_tokens,
     completion_tokens |-> completion_tokens,
     total_cost_usd |-> total_cost_usd(prompt_tokens, completion_tokens)]

\* log_correction that keeps only the newest row
log_correction_last_only(db, original_command, corrected_command, original_confidence, accepted, prompt_tokens, completion_tokens) ==
    [db EXCEPT !.model_corrections =
        <<CorrectionRecord(original_command, corrected_command, original_confidence,
                           accepted, prompt_tokens, completion_tokens)>>]

log_correction(db, original_command, corrected_command, original_confidence, accepted, prompt_tokens, completion_tokens) ==
    [db EXCEPT !.model_corrections =
        Append(@, CorrectionRecord(original_command, corrected_command,
                                   original_confidence, accepted,
                                   prompt_tokens, completion_tokens))]

\* get_stats()["detections"]["total"]: SELECT COUNT(*) FROM detection_history
get_stats_total(db) == Len(db.detection_history)

\* get_detection(): the row WHERE id = 1, as a set (empty for None)
get_detection(db) == {r \in db.current_detection : r.id = 1}

\* query_detections_for_session(session_id): the ids of the rows
\* WHERE session_id = ? (a NULL session_id equals no parameter)
query_detections_for_session(db, session_id) ==
    {i \in 1..Len(db.detection_history) :
        /\ db.detection_history[i].session_id # None
        /\ db.detection_history[i].session_id = session_id}

\* get_recent_detections(limit=1): ORDER BY timestamp DESC LIMIT 1, as the set
\* of rows the query may return first (rows with equal timestamps come in any order)
get_recent_detections(db) ==
    {r \in {db.detection_history[i] : i \in 1..Len(db.detection_history)} :
        \A k \in 1..Len(db.detection_history) :
            db.detection_history[k].timestamp <= r.timestamp}

\* the database after _init_db
EmptyStore ==
    [current_detection |-> {}, detection_history |-> <<>>,
     performance_metrics |-> <<>>, matcher_performance |-> <<>>,
     error_logs |-> <<>>, model_corrections |-> <<>>]

\* a store earlier turns have written to: three detections, one arbitrated
UsedStore ==
    log_correction(
        log_matcher_performance(
            set_detection(
                set_detection(
                    set_detection(EmptyStore, IntentMatch("/ctx:plan", 100, "fuzzy"), 1),
                    IntentMatch("/ctx:plan", 100, "fuzzy"), 2),
                IntentMatch("/ctx:plan", 100, "fuzzy"), 3),
            "fuzzy"),
        "/ctx:plan", "/ctx:plan", 100, FALSE, 212, 50)

\* time.time() when the hook process starts: later than every stored timestamp
HookStart == Len(UsedStore.detection_history) + 1

\* the store the hook process finds
InitStores == {UsedStore}

(***************************************************************************)
(* The arbiter's parsed answer (analyze_and_enhance's return value):       *)
(*   kind "none"     timeout, non-zero exit, unparseable output            *)
(*   kind "falsy"    parsed, but empty ({} or [] or 0 ...)                 *)
(*   kind "nondict"  parsed to a non-empty value that is no JSON object    *)
(*   kind "dict"     a JSON object; is_best_match is "true", "false" or    *)
(*                   "absent"; a missing alternatives key reads as []      *)
(***************************************************************************)
\* the "alternatives" lists the arbiter may answer with
AltLists == {<<>>, <<"/ctx:plan">>, <<"/ctx:design", "/ctx:plan">>}

Analysis(kind, is_best_match, alternatives) ==
    [kind |-> kind, is_best_match |-> is_best_match, alternatives |-> alternatives]

NoAnalysis == Analysis("none", "absent", <<>>)

\* (the alternatives are read only when is_best_match is false)
Judgements ==
    {Analysis("dict", "false", alts) : alts \in AltLists}
    \cup {Analysis("dict", "true", <<>>), Analysis("dict", "true", <<"/ctx:plan">>),
          Analysis("dict", "absent", <<>>)}

ArbiterAnswers ==
    Judgements \cup {Analysis("falsy", "absent", <<>>), Analysis("nondict", "absent", <<>>)}

\* a failed analysis taken for an answer
Truthy_always(a) == TRUE

\* Python truthiness of the parsed answer
Truthy(a) == a.kind \in {"dict", "nondict"}

\* not analysis.get("is_best_match", True)
not_is_best_match(a) == a.is_best_match = "false"

\* the cutoff compared with <= instead of <
ShouldRunHaiku_inclusive(confidence, method) ==
    confidence <= HAIKU_CUTOFF \/ method \in {"fuzzy", "semantic"}

\* main: match.confidence < 0.95 or match.method in ['fuzzy', 'semantic']
ShouldRunHaiku(confidence, method) ==
    confidence < HAIKU_CUTOFF \/ method \in {"fuzzy", "semantic"}

\* the arbiter's alternative ignored
choose_best_command_original(m, a) == <<m.command, FALSE>>

\* main lines 832-843: <<best_command, correction_accepted>>
choose_best_command(m, a) ==
    IF Truthy(a) /\ not_is_best_match(a) /\ a.alternatives # <<>>
    THEN <<a.alternatives[1], TRUE>>
    ELSE <<m.command, FALSE>>

(***************************************************************************)
(* Model2VecMatcher._load_model: <<the matcher afterwards, the result>>.   *)
(* outcome: "ok", "from_pretrained" (StaticModel.from_pretrained raises)   *)
(* or "precompute" (_precompute_intent_embeddings raises part-way).        *)
(***************************************************************************)
LoadOutcomes == {"ok", "from_pretrained", "precompute"}

NewModel2VecMatcher ==
    [model |-> None, intent_embeddings |-> None, model_load_attempted |-> FALSE]

load_model(m, outcome) ==
    IF m.model # None THEN <<m, TRUE>>
    ELSE IF m.model_load_attempted THEN <<m, FALSE>>
    ELSE LET a == [m EXCEPT !.model_load_attempted = TRUE]
         IN CASE outcome = "ok" ->
                   <<[a EXCEPT !.model = "loaded", !.intent_embeddings = "full"], TRUE>>
              [] outcome = "from_pretrained" -> <<a, FALSE>>
              [] outcome = "precompute" ->
                   <<[a EXCEPT !.model = "loaded", !.intent_embeddings = "partial"], FALSE>>

(***************************************************************************)
(* main(), one step per action.                                            *)
(***************************************************************************)
Events == {"badjson", "nondict", "noprompt", "nonstr", "ok"}

\* event.get("session_id", "") of the invocation
event_session_id == "session-1"

NewDetector == [keyword |-> None, model2vec |-> None, semantic |-> None]

Init ==
    /\ pc = "read"
    /\ event \in Events
    /\ prompt \in (IF event = "ok" THEN Prompts ELSE {<<>>})
    /\ stdout = <<>>
    /\ exc = "none"
    /\ det = NewDetector
    /\ m2v = NewModel2VecMatcher
    /\ trace = <<>>
    /\ match = NoMatch
    /\ should_run_haiku = FALSE
    /\ arb = "idle"
    /\ haiku_analysis = NoAnalysis
    /\ best_command = None
    /\ correction_accepted = FALSE
    /\ detection_count = 0
    /\ store \in InitStores
    /\ corr0 = Len(store.model_corrections)
    /\ store0 = store
    /\ proc = <<>>
    /\ clock = HookStart
    /\ wlock = 0

detectVars == <<det, m2v, trace, match>>
storeProcVars == <<store0, proc, clock, wlock>>
restVars == <<detection_count, storeProcVars>>
arbVars == <<should_run_haiku, arb, haiku_analysis, best_command, correction_accepted>>

\* raise inside main's try block
raise(where) == exc' = where /\ pc' = "except"

\* event_json = sys.stdin.read(); event = json.loads(event_json); prompt = event.get("prompt", "")
ReadEvent ==
    /\ pc = "read"
    /\ IF event \in {"badjson", "nondict"}
       THEN raise("read")
       ELSE pc' = "should_process" /\ UNCHANGED exc
    /\ UNCHANGED <<event, prompt, stdout, detectVars, arbVars, store, corr0, restVars>>

\* if not should_process(prompt): print(pass-through); return
ShouldProcess ==
    /\ pc = "should_process"
    /\ IF event = "nonstr"
       THEN raise("should_process") /\ UNCHANGED stdout
       ELSE IF ~should_process(prompt)
       THEN print_response(PassThrough) /\ pc' = "done" /\ UNCHANGED exc
       ELSE pc' = "git" /\ UNCHANGED <<stdout, exc>>
    /\ UNCHANGED <<event, prompt, detectVars, arbVars, store, corr0, restVars>>

\* is_git_workflow, git_command = detect_git_workflow(prompt)
GitWorkflow ==
    /\ pc = "git"
    /\ LET r == detect_git_workflow(prompt)
       IN IF r[1] /\ r[2] # None
          THEN print_response(Feedback("git")) /\ pc' = "done"
          ELSE pc' = "skill" /\ UNCHANGED stdout
    /\ UNCHANGED <<event, prompt, exc, detectVars, arbVars, store, corr0, restVars>>

\* find_correct_skill_name's <<correct_skill, confidence>> for the attempted name,
\* over the skill directories the plugin may hold
SkillLookups == {<<None, 0>>, <<"foo", 100>>, <<"ctx:foo", 100>>}

SkillInvocation ==
    /\ pc = "skill"
    /\ LET r == detect_skill_invocation(prompt)
       IN IF ~r[1]
          THEN pc' = "tier1" /\ UNCHANGED stdout
          ELSE \E found \in SkillLookups :
                 IF found[1] # None /\ found[2] > 70 /\ r[2] # found[1]
                 THEN print_response(Feedback("skill")) /\ pc' = "done"
                 ELSE pc' = "tier1" /\ UNCHANGED stdout
    /\ UNCHANGED <<event, prompt, exc, detectVars, arbVars, store, corr0, restVars>>

(***************************************************************************)
(* PromptuneDetector.detect, one tier per action.                          *)
(***************************************************************************)
\* the construction a _get_* accessor performs when the field is still None
constructed(field, tier) ==
    IF field = None THEN <<Event("construct", tier, NoMatch)>> ELSE <<>>

\* result = self._get_keyword().match(text); if result: return result
\* The scan raises when the vocabulary holds a keyword that is no string.
Tier1 ==
    /\ pc = "tier1"
    /\ det' = [det EXCEPT !.keyword = "obj"]
    /\ \/ /\ trace' = trace \o constructed(det.keyword, 1) \o <<Event("match", 1, Raised)>>
          /\ raise("detect")
          /\ UNCHANGED match
       \/ \E c \in Tier1Commands \cup {None}, s \in ConfLevels :
            /\ (c = None) <=> (s = 0)
            /\ LET result == KeywordMatcherV2_match(c, s)
               IN /\ trace' = trace \o constructed(det.keyword, 1)
                                    \o <<Event("match", 1, result)>>
                  /\ match' = result
                  /\ pc' = after_tier(result, "tier2")
            /\ UNCHANGED exc
    /\ UNCHANGED <<event, prompt, stdout, m2v, arbVars, store, corr0, restVars>>

\* Model2VecMatcher.match: <<the matcher afterwards, the result>>
m2v_match(m, load, encode_ok, command, similarity) ==
    LET l == load_model(m, load)
    IN IF ~l[2] THEN <<l[1], NoMatch>>
       ELSE IF ~encode_ok THEN <<l[1], NoMatch>>
       ELSE <<l[1], Model2VecMatcher_match(command, similarity)>>

\* m2v = self._get_model2vec(); if m2v: result = m2v.match(text); if result: return result
Tier2 ==
    /\ pc = "tier2"
    /\ \/ \* _get_model2vec constructs a matcher whose is_available() is False
          \* (import model2vec fails) and keeps None
          /\ det.model2vec = None
          /\ trace' = trace \o constructed(det.model2vec, 2)
          /\ pc' = "tier3"
          /\ UNCHANGED <<det, m2v, match>>
       \/ \E load \in LoadOutcomes, encode_ok \in BOOLEAN,
             c \in Tier2Commands \cup {None}, s \in ConfLevels :
            /\ (c = None) <=> (s = 0)
            /\ LET m == IF det.model2vec = None THEN NewModel2VecMatcher ELSE m2v
                   r == m2v_match(m, load, encode_ok, c, s)
               IN /\ det' = [det EXCEPT !.model2vec = "obj"]
                  /\ m2v' = r[1]
                  /\ trace' = trace \o constructed(det.model2vec, 2)
                                    \o <<Event("match", 2, r[2])>>
                  /\ match' = r[2]
                  /\ pc' = after_tier(r[2], "tier3")
    /\ UNCHANGED <<event, prompt, stdout, exc, arbVars, store, corr0, restVars>>

\* SemanticRouterMatcher.match: _build_router fails or the router call raises
\* (both caught inside match) give None
sem_match(built, routed, name, score) ==
    IF ~built \/ ~routed THEN NoMatch ELSE SemanticRouterMatcher_match(name, score)

\* sem = self._get_semantic(); if sem: result = sem.match(text); if result: return result
\* return None
\* det.semantic is "obj" for a matcher whose _router is None and "router" for
\* one whose router has been built (_build_router then returns True at once)
Tier3 ==
    /\ pc = "tier3"
    /\ pc' = "detected"
    /\ \/ \* SEMANTIC_ROUTER_AVAILABLE is False: the import at the top failed
          /\ det.semantic = None
          /\ UNCHANGED <<det, trace, match>>
       \/ \* no COHERE_API_KEY and no OPENAI_API_KEY: is_available() is False
          /\ det.semantic = None
          /\ trace' = trace \o constructed(det.semantic, 3)
          /\ UNCHANGED <<det, match>>
       \/ \E built \in BOOLEAN, routed \in BOOLEAN,
             name \in Tier3Commands \cup {None}, score \in ConfLevels :
            /\ det.semantic = "router" => built
            /\ LET result == sem_match(built, routed, name, score)
               IN /\ det' = [det EXCEPT !.semantic = IF built THEN "router" ELSE "obj"]
                  /\ trace' = trace \o constructed(det.semantic, 3)
                                    \o <<Event("match", 3, result)>>
                  /\ match' = result
    /\ UNCHANGED <<event, prompt, stdout, exc, m2v, arbVars, store, corr0, restVars>>

(***************************************************************************)
(* main() after detect.                                                    *)
(***************************************************************************)
\* a cutoff that only stops on None
below_cutoff_none_only(m) == m = NoMatch

\* if match is None or match.confidence < 0.7
below_cutoff(m) == m = NoMatch \/ m.confidence < HOOK_CUTOFF

\* clear_detection_statusline(); print(pass-through); return
\* (a failing store operation is caught inside clear_detection_statusline)
NoIntent ==
    /\ pc = "detected"
    /\ below_cutoff(match)
    /\ \E ok \in BOOLEAN : store' = IF ok THEN clear_detection(store) ELSE store
    /\ print_response(PassThrough)
    /\ pc' = "done"
    /\ UNCHANGED <<event, prompt, exc, detectVars, arbVars, corr0, restVars>>

\* write_detection_for_statusline: "ok", or the store fails in set_detection
\* ("set") or in log_matcher_performance ("perf"); the handler then tries log_error
write_detection(db, m, timestamp, w, error_logged) ==
    LET written == CASE w = "ok" ->
                          log_matcher_performance(set_detection(db, m, timestamp), m.method)
                     [] w = "set" -> db
                     [] w = "perf" -> set_detection(db, m, timestamp)
    IN IF w # "ok" /\ error_logged THEN log_error(written, "user_prompt_submit") ELSE written

\* get_detection_count(): get_stats()'s total, 0 when the store raises
get_detection_count(db, stats_ok) == IF stats_ok THEN get_stats_total(db) ELSE 0

\* write_detection_for_statusline(match, prompt);
\* detection_count = get_detection_count()
\* (increment_detection_count() only writes a counter file nothing reads back)
WriteDetection ==
    /\ pc = "detected"
    /\ ~below_cutoff(match)
    /\ \E w \in {"ok", "set", "perf"}, e \in BOOLEAN :
         store' = write_detection(store, match, clock, w, e)
    /\ \E stats_ok \in BOOLEAN : detection_count' = get_detection_count(store', stats_ok)
    /\ pc' = "trigger"
    /\ UNCHANGED <<event, prompt, stdout, exc, detectVars, arbVars, corr0, storeProcVars>>

\* the analysis started in the background, main going on without its result
Trigger_async ==
    /\ pc = "trigger"
    /\ should_run_haiku' = ShouldRunHaiku(match.confidence, match.method)
    /\ pc' = "decide"
    /\ arb' = IF should_run_haiku' THEN "running" ELSE arb
    /\ UNCHANGED <<event, prompt, stdout, exc, detectVars, haiku_analysis, best_command,
                   correction_accepted, store, corr0, restVars>>

\* should_run_haiku = ...; if should_run_haiku and engineer.is_available():
\* `claude --version` succeeds, fails (not found, timeout, non-zero exit), or
\* subprocess.run raises another OSError
Trigger ==
    /\ pc = "trigger"
    /\ should_run_haiku' = ShouldRunHaiku(match.confidence, match.method)
    /\ IF ~should_run_haiku'
       THEN pc' = "decide" /\ UNCHANGED <<arb, exc>>
       ELSE \/ arb' = "running" /\ pc' = "arbitrating" /\ UNCHANGED exc
            \/ pc' = "decide" /\ UNCHANGED <<arb, exc>>
            \/ raise("is_available") /\ UNCHANGED arb
    /\ UNCHANGED <<event, prompt, stdout, detectVars, haiku_analysis, best_command,
                   correction_accepted, store, corr0, restVars>>

\* haiku_analysis = engineer.analyze_and_enhance(..., timeout=30): subprocess.run
\* returns or raises TimeoutExpired
ArbiterReturns ==
    /\ pc = "arbitrating"
    /\ \/ \E failure \in {"timeout", "nonzero", "unparseable"} :
            arb' = failure /\ haiku_analysis' = NoAnalysis
       \/ \E a \in ArbiterAnswers : arb' = "returned" /\ haiku_analysis' = a
    /\ pc' = "decide"
    /\ UNCHANGED <<event, prompt, stdout, exc, detectVars, should_run_haiku,
                   best_command, correction_accepted, store, corr0, restVars>>

\* format_interactive_suggestion(match, haiku_analysis, ...) calls analysis.get,
\* which a non-dict does not have; then best_command and correction_accepted
Decide ==
    /\ pc = "decide"
    /\ IF haiku_analysis.kind = "nondict"
       THEN raise("format_interactive_suggestion")
            /\ UNCHANGED <<best_command, correction_accepted>>
       ELSE LET b == choose_best_command(match, haiku_analysis)
            IN /\ best_command' = b[1]
               /\ correction_accepted' = b[2]
               /\ pc' = "log"
               /\ UNCHANGED exc
    /\ UNCHANGED <<event, prompt, stdout, detectVars, should_run_haiku, arb,
                   haiku_analysis, store, corr0, restVars>>

\* load_available_commands(): the keys of COMMAND_ACTIONS that start with "/"
load_available_commands ==
    {"/ctx:design", "/ctx:research", "/ctx:plan", "/ctx:execute", "/ctx:status",
     "/ctx:cleanup", "/ctx:help", "/ctx:configure", "/ctx:stats", "/ctx:verify"}

\* prompt_tokens = 150 + len(prompt.split()) + len(load_available_commands()) * 5
estimate_prompt_tokens(p) ==
    150 + split_len(p) + Cardinality(load_available_commands) * 5

\* completion_tokens = 50 + len(str(haiku_analysis.get("suggestion", ""))) // 4
\* (the analyses here carry no suggestion text)
estimate_completion_tokens(analysis) == 50 + 0 \div 4

\* if haiku_analysis: try: db.log_correction(...) except Exception: print(...)
LogCorrection ==
    /\ pc = "log"
    /\ IF Truthy(haiku_analysis)
       THEN \E ok \in BOOLEAN :
              store' = IF ok
                       THEN log_correction(store, match.command, best_command,
                                           match.confidence, correction_accepted,
                                           estimate_prompt_tokens(prompt),
                                           estimate_completion_tokens(haiku_analysis))
                       ELSE store
       ELSE UNCHANGED store
    /\ pc' = "respond"
    /\ UNCHANGED <<event, prompt, stdout, exc, detectVars, arbVars, corr0, restVars>>

\* get_contextual_tip(match, detection_count): the tip, None for no tip
get_contextual_tip(m, count) ==
    IF count <= 3 THEN "tip: /ctx:help"
    ELSE IF count <= 10 THEN "tip: /ctx:configure"
    ELSE IF count <= 20
         THEN IF m.command \in {"/ctx:design", "/ctx:plan"}
              THEN "tip: /ctx:plan" ELSE "tip: /ctx:stats"
    ELSE IF count % 10 = 0 THEN "tip: celebration" ELSE None

\* format_interactive_suggestion(match, analysis, detection_count): the parts
\* of the message that vary (the alternatives listed, the tip)
format_interactive_suggestion(m, a, count) ==
    LET tip == get_contextual_tip(m, count)
    IN <<"interactive", m.command>>
       \o (IF Truthy(a) /\ not_is_best_match(a) THEN a.alternatives ELSE <<>>)
       \o (IF tip # None THEN <<tip>> ELSE <<>>)

\* response = {"continue": True, "additionalContext": interactive_msg,
\* "suppressOutput": False}
InteractiveResponse(m, a, count) ==
    [continue |-> TRUE, suppressOutput |-> FALSE,
     additionalContext |-> format_interactive_suggestion(m, a, count)]

\* print(json.dumps(response)) at the end of the try block
Respond ==
    /\ pc = "respond"
    /\ print_response(InteractiveResponse(match, haiku_analysis, detection_count))
    /\ pc' = "done"
    /\ UNCHANGED <<event, prompt, exc, detectVars, arbVars, store, corr0, restVars>>

\* a handler that logs the error and prints no response
Except_silent ==
    /\ pc = "except"
    /\ pc' = "done"
    /\ UNCHANGED <<event, prompt, stdout, exc, detectVars, arbVars, store, corr0, restVars>>

\* except Exception as e: ...; print(json.dumps({"continue": True, "suppressOutput": True}))
Except ==
    /\ pc = "except"
    /\ print_response(PassThrough)
    /\ pc' = "done"
    /\ UNCHANGED <<event, prompt, exc, detectVars, arbVars, store, corr0, restVars>>

Next ==
    \/ ReadEvent \/ ShouldProcess \/ GitWorkflow \/ SkillInvocation
    \/ Tier1 \/ Tier2 \/ Tier3
    \/ NoIntent \/ WriteDetection \/ Trigger \/ ArbiterReturns
    \/ Decide \/ LogCorrection \/ Respond \/ Except

Spec == Init /\ [][Next]_vars

(***************************************************************************)
(* The selective-trigger expression on its own, over every confidence      *)
(* and every method string a match can carry.                              *)
(***************************************************************************)
Methods == {"keyword", "fuzzy", "semantic", "model2vec", "semantic_router"}

InitArb ==
    /\ pc = "trigger_in"
    /\ match \in {IntentMatch("/ctx:help", c, m) : c \in 0..100, m \in Methods}
    /\ event = "ok"
    /\ prompt = <<>>
    /\ stdout = <<>>
    /\ exc = "none"
    /\ det = NewDetector
    /\ m2v = NewModel2VecMatcher
    /\ trace = <<>>
    /\ should_run_haiku = FALSE
    /\ arb = "idle"
    /\ haiku_analysis = NoAnalysis
    /\ best_command = None
    /\ correction_accepted = FALSE
    /\ detection_count = 0
    /\ store = EmptyStore
    /\ corr0 = 0
    /\ store0 = store
    /\ proc = <<>>
    /\ clock = HookStart
    /\ wlock = 0

\* should_run_haiku = match.confidence < 0.95 or match.method in ['fuzzy', 'semantic']
EvalTrigger ==
    /\ pc = "trigger_in"
    /\ should_run_haiku' = ShouldRunHaiku(match.confidence, match.method)
    /\ pc' = "trigger_out"
    /\ UNCHANGED <<event, prompt, stdout, exc, detectVars, arb, haiku_analysis,
                   best_command, correction_accepted, store, corr0, restVars>>

NextArb == EvalTrigger

SpecArb == InitArb /\ [][NextArb]_vars

(***************************************************************************)
(* One Model2VecMatcher instance over the calls a process makes on it.     *)
(* trace holds the calls in order.                                         *)
(***************************************************************************)
\* main()'s variables while no hook invocation runs
mainVars == <<event, prompt, stdout, exc, arbVars, detection_count>>

NoMain ==
    /\ event = "ok" /\ prompt = <<>> /\ stdout = <<>> /\ exc = "none"
    /\ should_run_haiku = FALSE /\ arb = "idle" /\ haiku_analysis = NoAnalysis
    /\ best_command = None /\ correction_accepted = FALSE /\ detection_count = 0

\* the store's variables while nothing calls the store
storeVars == <<store, corr0, storeProcVars>>

NoStoreCalls ==
    /\ store = EmptyStore /\ corr0 = 0 /\ store0 = store
    /\ proc = <<>> /\ clock = HookStart /\ wlock = 0

\* a call on the matcher: what it returned and whether it tried to load the
\* backend ("none", "ok", "failed")
MatcherCall(op, available, ret, load) ==
    [op |-> op, available |-> available, ret |-> ret, load |-> load]

\* is_available(): try: import model2vec; return True / except ImportError: return False
is_available(m, importable) == importable

\* what _load_model did when called on m with the given outcome
load_attempt(m, outcome) ==
    IF m.model # None \/ m.model_load_attempted THEN "none"
    ELSE IF outcome = "ok" THEN "ok" ELSE "failed"

InitMatcher ==
    /\ pc = "matcher"
    /\ m2v = NewModel2VecMatcher
    /\ det = NewDetector
    /\ trace = <<>>
    /\ match = NoMatch
    /\ NoMain
    /\ NoStoreCalls

IsAvailable ==
    /\ pc = "matcher"
    /\ Len(trace) < MaxCalls
    /\ \E importable \in BOOLEAN :
         trace' = Append(trace, MatcherCall("is_available", is_available(m2v, importable),
                                            NoMatch, "none"))
    /\ UNCHANGED <<pc, det, m2v, match, mainVars, storeVars>>

\* match(text) on a non-blank text
Match ==
    /\ pc = "matcher"
    /\ Len(trace) < MaxCalls
    /\ \E load \in LoadOutcomes, encode_ok \in BOOLEAN,
          c \in Tier2Commands \cup {None}, s \in ConfLevels :
         /\ (c = None) <=> (s = 0)
         /\ LET r == m2v_match(m2v, load, encode_ok, c, s)
            IN /\ m2v' = r[1]
               /\ match' = r[2]
               /\ trace' = Append(trace, MatcherCall("match", FALSE, r[2],
                                                     load_attempt(m2v, load)))
    /\ UNCHANGED <<pc, det, mainVars, storeVars>>

NextMatcher == IsAvailable \/ Match

SpecMatcher == InitMatcher /\ [][NextMatcher]_vars

(***************************************************************************)
(* One PromptuneDetector over the detect calls a process makes on it.      *)
(* trace holds the constructions and match() calls of all the calls.       *)
(***************************************************************************)
InitDetector ==
    /\ pc = "tier1"
    /\ det = NewDetector
    /\ m2v = NewModel2VecMatcher
    /\ trace = <<>>
    /\ match = NoMatch
    /\ NoMain
    /\ NoStoreCalls

\* detect calls started so far: each starts with Tier 1's match()
detect_calls == Cardinality({i \in 1..Len(trace) : trace[i].op = "match" /\ trace[i].tier = 1})

\* detector.detect(text) called again on the same detector
DetectAgain ==
    /\ pc = "detected"
    /\ detect_calls < MaxCalls
    /\ pc' = "tier1"
    /\ match' = NoMatch
    /\ UNCHANGED <<det, m2v, trace, mainVars, storeVars>>

NextDetector == Tier1 \/ Tier2 \/ Tier3 \/ DetectAgain

SpecDetector == InitDetector /\ [][NextDetector]_vars

(***************************************************************************)
(* Processes (or threads) calling one store.  Every ObservabilityDB method *)
(* reads time.time(), opens its own connection, runs its statements in one *)
(* transaction and commits.  The first write statement takes the           *)
(* database's write lock, waiting while another connection holds it; the   *)
(* statements become visible to other connections together, at the commit. *)
(* store is the committed contents.                                        *)
(***************************************************************************)
StoreOps ==
    {"set_detection", "clear_detection", "log_performance",
     "log_matcher_performance", "log_error", "log_correction"}

\* original_command=f"/ctx:cmd{thread_id}"
ThreadCommands ==
    <<"/ctx:cmd0", "/ctx:cmd1", "/ctx:cmd2", "/ctx:cmd3", "/ctx:cmd4",
      "/ctx:cmd5", "/ctx:cmd6", "/ctx:cmd7", "/ctx:cmd8", "/ctx:cmd9">>

\* a process between calls, having started `calls` calls of which `sets`
\* were set_detection calls that returned
Caller(calls, sets) ==
    [pc |-> "idle", op |-> None, timestamp |-> 0, calls |-> calls, sets |-> sets]

\* what the statements of process i's call write when they are committed
committed(db, op, i, timestamp) ==
    CASE op = "set_detection" ->
            set_detection(db, IntentMatch(ThreadCommands[i], 80, "fuzzy"), timestamp)
      [] op = "clear_detection" -> clear_detection(db)
      [] op = "log_performance" -> log_performance(db, "hook", 1)
      [] op = "log_matcher_performance" -> log_matcher_performance(db, "fuzzy")
      [] op = "log_error" -> log_error(db, "user_prompt_submit")
      [] op = "log_correction" ->
            log_correction(db, ThreadCommands[i], "/ctx:design", 80, TRUE, 150, 50)

RECURSIVE calls_started(_)
calls_started(S) ==
    IF S = {} THEN 0
    ELSE LET i == CHOOSE x \in S : TRUE IN proc[i].calls + calls_started(S \ {i})

InitStore ==
    /\ pc = "store"
    /\ store = EmptyStore
    /\ corr0 = 0
    /\ store0 = store
    /\ proc = [i \in 1..NProcs |-> Caller(0, 0)]
    /\ clock = 1
    /\ wlock = 0
    /\ NoMain
    /\ det = NewDetector /\ m2v = NewModel2VecMatcher /\ trace = <<>> /\ match = NoMatch

\* a process calls a method: timestamp = time.time() (kept for set_detection,
\* whose rows are the ones modelled with their timestamp)
Call ==
    \E i \in DOMAIN proc, op \in StoreOps :
        /\ pc = "store"
        /\ proc[i].pc = "idle"
        /\ calls_started(DOMAIN proc) < MaxCalls
        /\ proc' = [proc EXCEPT ![i].pc = "called", ![i].op = op,
                                ![i].timestamp = IF op = "set_detection" THEN clock ELSE 0,
                                ![i].calls = @ + 1]
        /\ clock' = clock + 1
        /\ UNCHANGED <<pc, store, corr0, store0, wlock, mainVars, detectVars>>

\* with sqlite3.connect(self.db_path) as conn: conn.execute(<first statement>)
Begin ==
    \E i \in DOMAIN proc :
        /\ proc[i].pc = "called"
        /\ wlock = 0
        /\ wlock' = i
        /\ proc' = [proc EXCEPT ![i].pc = "txn"]
        /\ UNCHANGED <<pc, store, corr0, store0, clock, mainVars, detectVars>>

\* the remaining statements; conn.commit(); the method returns
Commit ==
    \E i \in DOMAIN proc :
        /\ proc[i].pc = "txn"
        /\ wlock = i
        /\ store' = committed(store, proc[i].op, i, proc[i].timestamp)
        /\ wlock' = 0
        /\ proc' = [proc EXCEPT ![i] =
                      Caller(@.calls, @.sets + (IF @.op = "set_detection" THEN 1 ELSE 0))]
        /\ UNCHANGED <<pc, corr0, store0, clock, mainVars, detectVars>>

\* sqlite3 raises (the file cannot be opened, a statement or the commit
\* fails): the connection's context manager rolls the transaction back
Rollback ==
    \E i \in DOMAIN proc :
        /\ pc = "store"
        /\ proc[i].pc \in {"called", "txn"}
        /\ wlock' = IF wlock = i THEN 0 ELSE wlock
        /\ proc' = [proc EXCEPT ![i] = Caller(@.calls, @.sets)]
        /\ UNCHANGED <<pc, store, corr0, store0, clock, mainVars, detectVars>>

NextStore == Call \/ Begin \/ Commit \/ Rollback

SpecStore == InitStore /\ [][NextStore]_vars

(***************************************************************************)
(* test_concurrent_writes: threads that each call log_correction once on   *)
(* a fresh store.                                                          *)
(***************************************************************************)
InitWriters ==
    /\ pc = "writers"
    /\ store = EmptyStore
    /\ corr0 = 0
    /\ store0 = store
    /\ proc = [i \in 1..NWriters |-> Caller(0, 0)]
    /\ clock = 1
    /\ wlock = 0
    /\ NoMain
    /\ det = NewDetector /\ m2v = NewModel2VecMatcher /\ trace = <<>> /\ match = NoMatch

\* write_correction(thread_id): temp_db.log_correction(...)
WriterCall ==
    \E i \in DOMAIN proc :
        /\ pc = "writers"
        /\ proc[i].pc = "idle"
        /\ proc[i].calls = 0
        /\ proc' = [proc EXCEPT ![i].pc = "called", ![i].op = "log_correction",
                                ![i].calls = @ + 1]
        /\ clock' = clock + 1
        /\ UNCHANGED <<pc, store, corr0, store0, wlock, mainVars, detectVars>>

NextWriters == WriterCall \/ Begin \/ Commit

SpecWriters == InitWriters /\ [][NextWriters]_vars

(***************************************************************************)
(* get_stats()["performance"]: per component, the latency series ordered   *)
(* by latency_ms and read at three positions.  The store starts with a     *)
(* series earlier runs logged; log_performance calls add samples.          *)
(***************************************************************************)
\* longest series the store starts with
MaxSamples == 21

\* log_performance calls made on top of it
MaxLogged == 3

Components == {"hook", "detector"}

Latencies == {1, 5, 9}

\* the series a component logged while its latency went down from n to 1
RECURSIVE Improving(_, _, _)
Improving(db, component, n) ==
    IF n = 0 THEN db
    ELSE Improving(log_performance(db, component, n), component, n - 1)

\* SELECT latency_ms FROM performance_metrics WHERE component = ?, in rowid order
where_component(db, component) ==
    LET rows == SelectSeq(db.performance_metrics, LAMBDA r : r.component = component)
    IN [i \in 1..Len(rows) |-> rows[i].latency_ms]

\* the same rows left in insertion order
insertion_order(latencies) == latencies

\* ... ORDER BY latency_ms (latencies.sort() in get_performance_overview)
RECURSIVE order_by_latency_ms(_)
order_by_latency_ms(latencies) ==
    IF latencies = <<>> THEN <<>>
    ELSE LET x == Head(latencies)
             rest == order_by_latency_ms(Tail(latencies))
         IN SelectSeq(rest, LAMBDA y : y < x) \o <<x>> \o SelectSeq(rest, LAMBDA y : y >= x)

\* int(n * 0.5), int(n * 0.95), int(n * 0.99) with the fraction in percent:
\* the double product truncated toward zero
percentile_index(n, percent) == (n * percent) \div 100

\* latencies[i] of a Python list (0-based)
getitem(latencies, i) == latencies[i + 1]

\* SELECT DISTINCT component FROM performance_metrics
distinct_components(db) ==
    {db.performance_metrics[i].component : i \in 1..Len(db.performance_metrics)}

\* perf_stats as get_stats builds it
perf_stats(db) ==
    [component \in distinct_components(db) |->
        LET latencies == order_by_latency_ms(where_component(db, component))
            n == Len(latencies)
        IN [p50 |-> getitem(latencies, percentile_index(n, 50)),
            p95 |-> getitem(latencies, percentile_index(n, 95)),
            p99 |-> getitem(latencies, percentile_index(n, 99)),
            count |-> n]]

InitStats ==
    /\ pc = "stats"
    /\ \E n \in 0..MaxSamples : store = Improving(EmptyStore, "hook", n)
    /\ corr0 = 0
    /\ store0 = store
    /\ proc = <<>> /\ clock = HookStart /\ wlock = 0
    /\ NoMain
    /\ det = NewDetector /\ m2v = NewModel2VecMatcher /\ trace = <<>> /\ match = NoMatch

\* db.log_performance(component, operation, latency_ms)
LogPerformance ==
    /\ pc = "stats"
    /\ Len(store.performance_metrics) < Len(store0.performance_metrics) + MaxLogged
    /\ \E component \in Components, latency_ms \in Latencies :
         store' = log_performance(store, component, latency_ms)
    /\ trace' = <<>>
    /\ UNCHANGED <<pc, corr0, storeProcVars, mainVars, det, m2v, match>>

\* db.get_stats(): trace holds the performance part of what it returned
GetStats ==
    /\ pc = "stats"
    /\ trace = <<>>
    /\ trace' = <<perf_stats(store)>>
    /\ UNCHANGED <<pc, store, corr0, storeProcVars, mainVars, det, m2v, match>>

NextStats == LogPerformance \/ GetStats

SpecStats == InitStats /\ [][NextStats]_vars

(***************************************************************************)
(* log_correction's cost: one caller logging corrections with different    *)
(* token counts between calls of the store's other methods.                *)
(***************************************************************************)
\* store calls of the caller
MaxCostCalls == 3

PromptTokens == {0, 150, 1000}

CompletionTokens == {50, 500}

InitCost ==
    /\ pc = "cost"
    /\ store = EmptyStore
    /\ corr0 = 0
    /\ store0 = store
    /\ proc = <<>> /\ clock = 1 /\ wlock = 0
    /\ NoMain
    /\ det = NewDetector /\ m2v = NewModel2VecMatcher /\ trace = <<>> /\ match = NoMatch

\* db.log_correction(..., prompt_tokens=..., completion_tokens=...)
CostLogCorrection ==
    /\ pc = "cost"
    /\ clock <= MaxCostCalls
    /\ \E accepted \in BOOLEAN, prompt_tokens \in PromptTokens,
          completion_tokens \in CompletionTokens :
         store' = log_correction(store, "/ctx:research",
                                 IF accepted THEN "/ctx:design" ELSE "/ctx:research",
                                 85, accepted, prompt_tokens, completion_tokens)
    /\ clock' = clock + 1
    /\ UNCHANGED <<pc, corr0, store0, proc, wlock, mainVars, detectVars>>

\* a call of one of the other methods
CostOtherCall ==
    /\ pc = "cost"
    /\ clock <= MaxCostCalls
    /\ \E op \in StoreOps \ {"log_correction"} : store' = committed(store, op, 1, clock)
    /\ clock' = clock + 1
    /\ UNCHANGED <<pc, corr0, store0, proc, wlock, mainVars, detectVars>>

NextCost == CostLogCorrection \/ CostOtherCall

SpecCost == InitCost /\ [][NextCost]_vars

(***************************************************************************)
(* KeywordMatcherV2.match as a function of the text and of the scores      *)
(* fuzz.partial_ratio gives the indexed keywords on it.  A text is its     *)
(* sequence of whitespace-separated tokens, lower case.                    *)
(***************************************************************************)
\* longest text, in tokens
MaxTokens == 3

TextTokens == {"help", "me", "you", "can", "research", "with", "-"}

Texts == UNION {[1..n -> TextTokens] : n \in 0..MaxTokens}

\* keyword_index.items() with each command's keywords, in iteration order
KeywordPairs ==
    <<[command |-> "/ctx:help", keyword |-> "help"],
      [command |-> "/ctx:help", keyword |-> "guide"],
      [command |-> "/ctx:research", keyword |-> "research"],
      [command |-> "/ctx:design", keyword |-> "design"]>>

\* partial_ratio of a keyword the text does not contain
FuzzyLevels == {0, 69, 70}

\* fuzz.partial_ratio(keyword.lower(), text) for every pair: 100 for a keyword
\* that occurs in the text, 0 on the empty text
PartialRatios(text) ==
    {scores \in [1..Len(KeywordPairs) -> FuzzyLevels \cup {100}] :
        \A i \in 1..Len(KeywordPairs) :
            /\ scores[i] = 100 <=> \E k \in 1..Len(text) : text[k] = KeywordPairs[i].keyword
            /\ text = <<>> => scores[i] = 0}

\* \w+ matches the whole token
IsWord(token) == token # "-"

\* _is_help_with_action that finds no pattern
no_help_with_action(text) == FALSE

\* _is_help_with_action: re.search of the three action_patterns
is_help_with_action(text) ==
    \E i \in 1..Len(text) :
        \/ /\ text[i] = "help"
           /\ i + 1 <= Len(text) /\ text[i + 1] \in {"me", "us", "you", "them"}
        \/ /\ text[i] \in {"can", "could", "would", "will"}
           /\ i + 2 <= Len(text) /\ text[i + 1] = "you" /\ text[i + 2] = "help"
        \/ /\ text[i] = "help"
           /\ i + 2 <= Len(text) /\ IsWord(text[i + 1])
           /\ text[i + 2] \in {"with", "to", "for"}

\* a scan that lets a later pair with an equal score replace the best one
not_worse(score, best_score) == score >= best_score

\* if score > best_score
better(score, best_score) == score > best_score

\* best_match = None; best_score = 0.0; matched_keywords = []
NoBest == [best_match |-> None, best_score |-> 0, matched_keywords |-> <<>>]

\* the two loops of match from pair i on
RECURSIVE scan(_, _, _, _)
scan(i, text, scores, best) ==
    IF i > Len(KeywordPairs) THEN best
    ELSE IF KeywordPairs[i].command = "/ctx:help" /\ is_help_with_action(text)
         THEN scan(i + 1, text, scores, best)
         ELSE IF better(scores[i], best.best_score)
              THEN scan(i + 1, text, scores,
                        [best_match |-> KeywordPairs[i].command,
                         best_score |-> scores[i],
                         matched_keywords |-> <<KeywordPairs[i].keyword>>])
              ELSE scan(i + 1, text, scores, best)

\* KeywordMatcherV2.match(text)
keyword_match(text, scores) ==
    IF text = <<>> THEN NoMatch
    ELSE LET best == scan(1, text, scores, NoBest)
         IN KeywordMatcherV2_match(best.best_match, best.best_score)

InitKeyword ==
    /\ pc = "keyword"
    /\ prompt \in Texts
    /\ trace = <<>>
    /\ event = "ok" /\ stdout = <<>> /\ exc = "none"
    /\ should_run_haiku = FALSE /\ arb = "idle" /\ haiku_analysis = NoAnalysis
    /\ best_command = None /\ correction_accepted = FALSE /\ detection_count = 0
    /\ NoStoreCalls
    /\ det = NewDetector /\ m2v = NewModel2VecMatcher /\ match = NoMatch

\* matcher.match(text): trace holds the scores and the returned value
KeywordMatch ==
    /\ pc = "keyword"
    /\ trace = <<>>
    /\ \E scores \in PartialRatios(prompt) :
         trace' = <<[scores |-> scores, ret |-> keyword_match(prompt, scores)]>>
    /\ UNCHANGED <<pc, prompt, event, stdout, exc, arbVars, detection_count,
                   storeVars, det, m2v, match>>

NextKeyword == KeywordMatch

SpecKeyword == InitKeyword /\ [][NextKeyword]_vars

(***************************************************************************)
(* KeywordMatcherV2(base_dir): load_keywords on a base directory whose     *)
(* data/intent_mappings.json and commands/, skills/, agents/ directories   *)
(* are in one of the conditions below.  det holds the directory and the    *)
(* matcher's keyword_index (a dict: a function on its keys).               *)
(***************************************************************************)
\* data/intent_mappings.json: absent; not JSON; a JSON value without .get
\* (a list); {}; with keywords; with keywords under "commands" and a
\* "skills" value that has no .items()
JsonFiles == {"missing", "unparseable", "not_object", "empty", "usable", "partial"}

\* a markdown directory: absent; holding no file with name and keywords in
\* its frontmatter; holding one; unreadable (exists() or glob() raises)
MarkdownDirs == {"missing", "unusable", "usable", "raises"}

JsonCommands == "/ctx:plan" :> <<"plan">>
JsonSkills == "skill:ctx:help" :> <<"help">>

\* what _parse_markdown_file indexes from the files of a directory
MarkdownVocabulary(dir) ==
    CASE dir = "commands" -> "/ctx:execute" :> <<"execute">>
      [] dir = "skills" -> "skill:ctx:worktree" :> <<"worktree">>
      [] dir = "agents" -> "agent:worktree-manager" :> <<"worktree">>

\* the "minimal fallback" of load_keywords
MinimalIndex ==
    ("/ctx:design" :> <<"design", "architect", "architecture">>)
        @@ ("/ctx:research" :> <<"research", "investigate">>)

\* self.keyword_index[name] = keywords for every entry of a vocabulary
update(keyword_index, vocabulary) == vocabulary @@ keyword_index

\* load_from_json(json_path): the index afterwards and whether it raised
load_from_json(keyword_index, json) ==
    CASE json \in {"unparseable", "not_object"} ->
            [keyword_index |-> keyword_index, raised |-> TRUE]
      [] json = "empty" -> [keyword_index |-> keyword_index, raised |-> FALSE]
      [] json = "usable" ->
            [keyword_index |-> update(update(keyword_index, JsonCommands), JsonSkills),
             raised |-> FALSE]
      [] json = "partial" ->
            [keyword_index |-> update(keyword_index, JsonCommands), raised |-> TRUE]

\* one "if dir.exists(): for file in dir.glob(...): _parse_markdown_file(file)"
load_dir(loaded, base_dir, dir) ==
    IF loaded.raised \/ base_dir[dir] = "raises"
    THEN [loaded EXCEPT !.raised = TRUE]
    ELSE IF base_dir[dir] = "usable"
         THEN [loaded EXCEPT !.keyword_index = update(@, MarkdownVocabulary(dir))]
         ELSE loaded

\* load_from_markdown()
load_from_markdown(keyword_index, base_dir) ==
    load_dir(load_dir(load_dir([keyword_index |-> keyword_index, raised |-> FALSE],
                               base_dir, "commands"),
                      base_dir, "skills"),
             base_dir, "agents")

\* load_keywords(): the keyword_index it leaves
load_keywords(keyword_index, base_dir) ==
    LET from_json == IF base_dir.json = "missing"
                     THEN [keyword_index |-> keyword_index, raised |-> TRUE]
                     ELSE load_from_json(keyword_index, base_dir.json)
        from_markdown == load_from_markdown(from_json.keyword_index, base_dir)
    IN IF base_dir.json # "missing" /\ ~from_json.raised THEN from_json.keyword_index
       ELSE IF from_markdown.raised THEN MinimalIndex
       ELSE from_markdown.keyword_index

BaseDirs ==
    [json : JsonFiles, commands : MarkdownDirs, skills : MarkdownDirs,
     agents : MarkdownDirs]

InitVocabulary ==
    /\ pc = "vocabulary"
    /\ \E base_dir \in BaseDirs :
         det = [base_dir |-> base_dir, keyword_index |-> <<>>, constructed |-> FALSE]
    /\ m2v = NewModel2VecMatcher /\ trace = <<>> /\ match = NoMatch
    /\ NoMain
    /\ NoStoreCalls

\* KeywordMatcherV2(base_dir): self.keyword_index = {}; self.load_keywords()
Construct ==
    /\ pc = "vocabulary"
    /\ ~det.constructed
    /\ det' = [det EXCEPT !.keyword_index = load_keywords(<<>>, det.base_dir),
                          !.constructed = TRUE]
    /\ UNCHANGED <<pc, m2v, trace, match, mainVars, storeVars>>

NextVocabulary == Construct

SpecVocabulary == InitVocabulary /\ [][NextVocabulary]_vars

(***************************************************************************)
(* Model2VecMatcher.match with the model loaded, as a function of the      *)
(* cosine similarities between the query and the precomputed patterns.     *)
(***************************************************************************)
\* patterns in _intent_embeddings
MaxBank == 4

\* INTENT_PATTERNS.items() with each command's patterns, in iteration order
IntentPatterns ==
    <<[command |-> "/sc:analyze", pattern |-> "analyze this code"],
      [command |-> "/sc:analyze", pattern |-> "review the codebase"],
      [command |-> "/sc:test", pattern |-> "run tests"],
      [command |-> "/sc:test", pattern |-> "check coverage"],
      [command |-> "/sc:troubleshoot", pattern |-> "fix this bug"],
      [command |-> "/sc:troubleshoot", pattern |-> "debug the issue"]>>

\* _cosine_similarity, in percent
Similarities == {-20, 0, 49, 50, 80}

\* a scan that lets a later pattern with an equal similarity replace the best one
not_lower(similarity, best_confidence) == similarity >= best_confidence

\* if similarity > best_confidence
higher(similarity, best_confidence) == similarity > best_confidence

\* best_command = None; best_confidence = 0.0; best_pattern = None
NoBestPattern == [best_command |-> None, best_confidence |-> 0, best_pattern |-> None]

\* the two loops of match over the first n patterns, from pattern i on
RECURSIVE scan_patterns(_, _, _, _)
scan_patterns(i, n, similarity, best) ==
    IF i > n THEN best
    ELSE IF higher(similarity[i], best.best_confidence)
         THEN scan_patterns(i + 1, n, similarity,
                            [best_command |-> IntentPatterns[i].command,
                             best_confidence |-> similarity[i],
                             best_pattern |-> IntentPatterns[i].pattern])
         ELSE scan_patterns(i + 1, n, similarity, best)

\* match(text) once the query is encoded: the IntentMatch and its matched_patterns
bank_match(n, similarity) ==
    LET best == scan_patterns(1, n, similarity, NoBestPattern)
        ret == Model2VecMatcher_match(best.best_command, best.best_confidence)
    IN [ret |-> ret,
        matched_patterns |-> IF ret # NoMatch /\ best.best_pattern # None
                             THEN <<best.best_pattern>> ELSE <<>>]

\* the matcher after a load; intent_embeddings is the number of patterns the
\* load precomputed
InitBank ==
    /\ pc = "bank"
    /\ \E n \in 0..MaxBank :
         m2v = [model |-> "loaded", intent_embeddings |-> n, model_load_attempted |-> TRUE]
    /\ detection_count = 0
    /\ det = NewDetector /\ trace = <<>> /\ match = NoMatch
    /\ event = "ok" /\ prompt = <<>> /\ stdout = <<>> /\ exc = "none"
    /\ should_run_haiku = FALSE /\ arb = "idle" /\ haiku_analysis = NoAnalysis
    /\ best_command = None /\ correction_accepted = FALSE
    /\ NoStoreCalls

\* matcher.match(text): trace holds the similarities and what was returned
BankMatch ==
    /\ pc = "bank"
    /\ trace = <<>>
    /\ \E similarity \in [1..m2v.intent_embeddings -> Similarities] :
         trace' = <<[similarity |-> similarity,
                     result |-> bank_match(m2v.intent_embeddings, similarity)]>>
    /\ UNCHANGED <<pc, det, m2v, match, mainVars, storeVars>>

NextBank == BankMatch

SpecBank == InitBank /\ [][NextBank]_vars

(***************************************************************************)
(* The hook invocations of one user turn.  analyze_and_enhance runs        *)
(* "claude -p analysis_prompt"; that session submits the analysis prompt,  *)
(* for which the hook is invoked again.  proc holds the invocations,       *)
(* outermost first.                                                        *)
(***************************************************************************)
\* invocations followed before the chain is cut
MaxDepth == 3

\* analysis_prompt = f"""You are a prompt enhancement assistant for Promptune,
\* ... USER'S PROMPT: "{prompt}" ..."""
analysis_prompt(p) == <<HaikuPrefix>> \o p

\* a hook invocation that has just read its event
Invocation(p) ==
    [prompt |-> p, pc |-> "start", cascade |-> FALSE, arbitrations |-> 0,
     response |-> <<>>]

\* what detector.detect returns on a processed prompt
CascadeResults ==
    {NoMatch} \cup {IntentMatch("/ctx:design", c, m) :
                        c \in {69, 70, 95}, m \in {"keyword", "fuzzy"}}

InitNested ==
    /\ pc = "nested"
    /\ \E p \in Prompts : proc = <<Invocation(p)>>
    /\ store = EmptyStore /\ corr0 = 0 /\ store0 = store
    /\ clock = HookStart /\ wlock = 0
    /\ NoMain
    /\ det = NewDetector /\ m2v = NewModel2VecMatcher /\ trace = <<>> /\ match = NoMatch

\* if not should_process(prompt): print(pass-through); return
HookSkips ==
    /\ pc = "nested"
    /\ proc[Len(proc)].pc = "start"
    /\ ~should_process(proc[Len(proc)].prompt)
    /\ proc' = [proc EXCEPT ![Len(proc)].pc = "done",
                            ![Len(proc)].response = <<PassThrough>>]
    /\ UNCHANGED <<pc, store, corr0, store0, clock, wlock, mainVars, detectVars>>

\* match = detector.detect(prompt) and what main does with it: pass-through
\* below the cutoff; the suggestion without arbitration; or analyze_and_enhance,
\* whose claude session may get as far as submitting the analysis prompt
HookDetects ==
    /\ pc = "nested"
    /\ proc[Len(proc)].pc = "start"
    /\ should_process(proc[Len(proc)].prompt)
    /\ \E m \in CascadeResults, available \in BOOLEAN, submitted \in BOOLEAN :
         LET detected == [proc EXCEPT ![Len(proc)].cascade = TRUE]
         IN IF below_cutoff(m)
            THEN proc' = [detected EXCEPT ![Len(proc)].pc = "done",
                                          ![Len(proc)].response = <<PassThrough>>]
            ELSE IF ShouldRunHaiku(m.confidence, m.method) /\ available
                 THEN /\ Len(proc) < MaxDepth
                      /\ proc' = [detected EXCEPT ![Len(proc)].pc = "arbitrating",
                                                  ![Len(proc)].arbitrations = @ + 1]
                                 \o (IF submitted
                                     THEN <<Invocation(analysis_prompt(proc[Len(proc)].prompt))>>
                                     ELSE <<>>)
                 ELSE proc' = [detected EXCEPT ![Len(proc)].pc = "done",
                                               ![Len(proc)].response = <<Feedback("suggestion")>>]
    /\ UNCHANGED <<pc, store, corr0, store0, clock, wlock, mainVars, detectVars>>

\* subprocess.run returns (or times out) once the inner hook has answered;
\* main goes on to print its response
ArbiterDone ==
    \E i \in DOMAIN proc :
        /\ pc = "nested"
        /\ proc[i].pc = "arbitrating"
        /\ \A k \in DOMAIN proc : k > i => proc[k].pc = "done"
        /\ proc' = [proc EXCEPT ![i].pc = "done",
                                ![i].response = <<Feedback("suggestion")>>]
        /\ UNCHANGED <<pc, store, corr0, store0, clock, wlock, mainVars, detectVars>>

NextNested == HookSkips \/ HookDetects \/ ArbiterDone

SpecNested == InitNested /\ [][NextNested]_vars

(***************************************************************************)
(* Properties.                                                             *)
(***************************************************************************)
MatchEvents(t) == {i \in 1..Len(trace) : trace[i].op = "match" /\ trace[i].tier = t}
TierEvents(t) == {i \in 1..Len(trace) : trace[i].tier = t}

\* tier t's match() was called and returned a match
Matched(t) == \E i \in MatchEvents(t) : trace[i].ret \notin {NoMatch, Raised}
\* tier t's match() was called and returned None
ReturnedNone(t) == \E i \in MatchEvents(t) : trace[i].ret = NoMatch
\* what tier t's match() returned
Ret(t) == trace[CHOOSE i \in MatchEvents(t) : TRUE].ret

\* detector.detect(prompt) has returned to main
DetectReturned ==
    \/ pc \in {"detected", "trigger", "arbitrating", "decide", "log", "respond"}
    \/ pc \in {"done", "except"} /\ trace # <<>> /\ exc # "detect"

\* C1: when Tier 1 returns a match, detect returns exactly that match and no
\* Tier 2 or Tier 3 matcher is constructed or asked during that call.
C1_ShortCircuit ==
    Matched(1) =>
        /\ match = Ret(1)
        /\ TierEvents(2) = {} /\ TierEvents(3) = {}
        /\ det.model2vec = None /\ det.semantic = None
        /\ pc \notin {"tier2", "tier3"}
        /\ DetectReturned

C1_Witness == pc = "done" /\ Matched(1) /\ match.method = "fuzzy" /\ match.confidence = 95

\* the prompts the skip rule names: empty, fewer than 3 words, or starting with "/"
SkipCase(p) == p = <<>> \/ split_len(p) < 3 \/ (p # <<>> /\ Head(p) = "/")

\* C2: for an empty prompt, one of fewer than 3 words, or one starting with "/",
\* no detector is constructed, no tier is asked, no intent is produced, and the
\* response is the pass-through.
C2_SkipRule ==
    (event = "ok" /\ SkipCase(prompt)) =>
        /\ trace = <<>>
        /\ det = NewDetector
        /\ match = NoMatch
        /\ pc \in {"read", "should_process", "done"}
        /\ pc = "done" => stdout = <<PassThrough>>
        /\ pc # "done" => stdout = <<>>

C2_Witness ==
    /\ pc = "done" /\ event = "ok" /\ stdout = <<PassThrough>>
    /\ split_len(prompt) = 2 /\ Head(prompt) # "/"

\* C3: the tiers are asked in the order 1, 2, 3, each at most once; Tier 2 only
\* after Tier 1 returned none, Tier 3 only after Tier 1 returned none and Tier 2
\* was unavailable or returned none; the result is the first match returned,
\* and it is none exactly when every tier that was available returned none.
\* (Stated of the detect call, up to its return or its exception: main never
\* touches the detector, the trace or the result afterwards.)
C3_FallThrough ==
    LET m1 == MatchEvents(1)
        m2 == MatchEvents(2)
        m3 == MatchEvents(3)
        none1 == \E i \in m1 : trace[i].ret = NoMatch
        none2 == \E i \in m2 : trace[i].ret = NoMatch
        none3 == \E i \in m3 : trace[i].ret = NoMatch
    IN pc \in {"tier1", "tier2", "tier3", "detected", "except"} =>
       /\ \A i \in 1..(Len(trace) - 1) : trace[i].tier <= trace[i + 1].tier
       /\ \A ms \in {m1, m2, m3} : \A i, j \in ms : i = j
       /\ trace # <<>> => trace[1].tier = 1
       /\ TierEvents(2) # {} => none1
       /\ TierEvents(3) # {} => none1 /\ (m2 = {} \/ none2)
       /\ DetectReturned =>
            /\ match = IF Matched(1) THEN Ret(1)
                       ELSE IF Matched(2) THEN Ret(2)
                       ELSE IF Matched(3) THEN Ret(3)
                       ELSE NoMatch
            /\ match = NoMatch => /\ none1
                                  /\ TierEvents(2) # {}
                                  /\ det.model2vec # None => none2
                                  /\ det.semantic # None => none3

C3_Witness ==
    /\ pc = "detected" /\ ReturnedNone(1) /\ ReturnedNone(2) /\ Matched(3)
    /\ match = Ret(3)

\* C4: a match() call that raises is treated as "no match from this tier": the
\* cascade goes on and detect does not propagate the exception to main.
C4_TierExceptionsGuarded ==
    (\E i \in 1..Len(trace) : trace[i].ret = Raised) => (exc # "detect" /\ pc # "except")

\* C5: main() always ends having printed exactly one JSON object, with
\* continue = true, and prints nothing more on any path.
C5_TotalResponse ==
    /\ Len(stdout) <= 1
    /\ \A i \in 1..Len(stdout) : stdout[i].continue = TRUE
    /\ pc = "done" <=> Len(stdout) = 1
    /\ pc # "done" => ENABLED Next

C5_Witness ==
    /\ pc = "done" /\ stdout = <<PassThrough>>
    /\ exc = "format_interactive_suggestion"

\* C6: should_run_haiku is confidence < 0.95 or method in {fuzzy, semantic}:
\* for fuzzy and semantic true at every confidence, for any other method true
\* below 0.95 and false from 0.95 on.
C6_ShouldArbitrate ==
    pc = "trigger_out" =>
        /\ match.method \in {"fuzzy", "semantic"} => should_run_haiku
        /\ match.method \notin {"fuzzy", "semantic"} =>
             (should_run_haiku <=> match.confidence < 95)

C6_Witness ==
    /\ pc = "trigger_out" /\ match.method = "keyword" /\ match.confidence = 95
    /\ ~should_run_haiku

\* C7: every match of the fuzzy lexical matcher, the static-embedding matcher
\* or the semantic router is selected for arbitration, whatever its confidence.
C7_FuzzySemanticArbitrated ==
    (pc \in {"arbitrating", "decide", "log", "respond"}
       /\ match.method \in {"fuzzy", "model2vec", "semantic_router"})
    => should_run_haiku

ArbiterFailed == arb \in {"timeout", "nonzero", "unparseable"}

\* C8: when the arbitration call times out, exits non-zero or returns output
\* that cannot be parsed, the effective intent is the cascade's intent and the
\* turn adds no row to model_corrections.
C8_ArbiterFailure ==
    ArbiterFailed =>
        /\ haiku_analysis = NoAnalysis
        /\ Len(store.model_corrections) = corr0
        /\ pc \in {"log", "respond", "done"} =>
             (best_command = match.command /\ ~correction_accepted)

C8_Witness ==
    /\ pc = "done" /\ arb = "timeout" /\ corr0 = 1
    /\ best_command = match.command /\ stdout # <<>>

\* the arbiter's judgement: not the best match, with a non-empty alternatives list
Override ==
    /\ arb = "returned" /\ haiku_analysis.kind = "dict"
    /\ haiku_analysis.is_best_match = "false" /\ haiku_analysis.alternatives # <<>>

CorrectionRow ==
    CorrectionRecord(match.command, haiku_analysis.alternatives[1], match.confidence,
                     TRUE, estimate_prompt_tokens(prompt),
                     estimate_completion_tokens(haiku_analysis))

\* C9 as stated: on such a judgement the effective intent becomes
\* alternatives[0] and exactly one Correction Record is written, with the
\* cascade's intent, alternatives[0] and correction_accepted = true.
C9_Original ==
    (Override /\ pc \in {"respond", "done"}) =>
        /\ best_command = haiku_analysis.alternatives[1]
        /\ Len(store.model_corrections) = corr0 + 1
        /\ store.model_corrections[corr0 + 1] = CorrectionRow

\* C9 as amended: on such a judgement the effective intent becomes
\* alternatives[0] and at most one Correction Record is written: the one with
\* the cascade's intent, alternatives[0] and correction_accepted = true when the
\* store takes the write, none when the store write fails.
C9_ArbiterOverride ==
    (Override /\ pc \in {"log", "respond", "done"}) =>
        /\ best_command = haiku_analysis.alternatives[1]
        /\ correction_accepted
        /\ Len(store.model_corrections) \in {corr0, corr0 + 1}
        /\ pc = "log" => Len(store.model_corrections) = corr0
        /\ Len(store.model_corrections) = corr0 + 1 =>
             store.model_corrections[corr0 + 1] = CorrectionRow

C9_Witness ==
    /\ Override /\ pc = "done"
    /\ best_command # match.command
    /\ Len(store.model_corrections) = corr0 + 1
    /\ store.model_corrections[corr0 + 1] = CorrectionRow

NoFailureResponse ==
    InteractiveResponse(match, haiku_analysis,
        get_detection_count(write_detection(store0, match, clock, "ok", FALSE), TRUE))

\* C11: a failing store operation changes neither the detection result nor the
\* response: the response of a turn that detected an intent is the one the
\* turn gives on the same store contents when no store operation fails.
C11_TelemetryIsolation ==
    (pc = "done" /\ exc = "none" /\ ~below_cutoff(match) /\ trace # <<>>)
        => stdout = <<NoFailureResponse>>

\* the invocation completed and surfaced no detected intent: the prompt was
\* skipped, a git-workflow or skill-correction response was returned, or the
\* cascade returned none or a match below the cutoff
NoIntentSurfaced ==
    pc = "done" /\ exc = "none" /\ (trace = <<>> \/ below_cutoff(match))

\* C19: after a completed hook invocation that surfaced no detected intent,
\* the Current Detection row is absent.
C19_ClearedWhenNoIntent == NoIntentSurfaced => get_detection(store) = {}

\* C12: once the backend load has failed on a matcher instance, every later
\* is_available() call on it returns false.
C12_UnavailabilityMemoized ==
    \A i, j \in 1..Len(trace) :
        (i < j /\ trace[i].load = "failed" /\ trace[j].op = "is_available")
            => ~trace[j].available

\* C13: after the first load attempt of a matcher instance has failed, every
\* later match() call on it returns none and makes no further load attempt.
C13_NoMatchAfterFailedLoad ==
    \A i, j \in 1..Len(trace) :
        (i < j /\ trace[i].load = "failed" /\ trace[j].op = "match")
            => (trace[j].ret = NoMatch /\ trace[j].load = "none")

\* the constructions of tier t's matcher so far
Constructions(t) == {i \in 1..Len(trace) : trace[i].op = "construct" /\ trace[i].tier = t}

\* C14: over any sequence of detect calls on one detector each tier's matcher
\* is constructed at most once, whether the tier turned out available or
\* not, and not before the first detect call that reaches the tier.
C14_ConstructedOnce ==
    /\ \A t \in 1..3 : Cardinality(Constructions(t)) <= 1
    /\ TierEvents(1) = {} => det.keyword = None
    /\ TierEvents(2) = {} => det.model2vec = None
    /\ TierEvents(3) = {} => det.semantic = None

\* writer i's call has returned
Returned(i) == proc[i].pc = "idle" /\ proc[i].calls = 1

\* the row writer i's call inserts
WriterRow(i) == CorrectionRecord(ThreadCommands[i], "/ctx:design", 80, TRUE, 150, 50)

\* C15: when the writers each call log_correction once, in any interleaving,
\* every call returns (none raises, none waits forever) and model_corrections
\* then holds exactly one row per writer and nothing else.
C15_ConcurrentWriters ==
    LET rows == store.model_corrections
    IN /\ \A i \in DOMAIN proc :
            Cardinality({k \in 1..Len(rows) : rows[k] = WriterRow(i)})
                = IF Returned(i) THEN 1 ELSE 0
       /\ \A k \in 1..Len(rows) : \E i \in DOMAIN proc : rows[k] = WriterRow(i)
       /\ (\A i \in DOMAIN proc : Returned(i)) => Len(rows) = NWriters
       /\ (\E i \in DOMAIN proc : ~Returned(i)) => ENABLED NextWriters

C15_Witness ==
    /\ \A i \in DOMAIN proc : Returned(i)
    /\ Len(store.model_corrections) = NWriters
    /\ store.model_corrections[1] = WriterRow(NWriters)

RECURSIVE successful_sets(_)
successful_sets(S) ==
    IF S = {} THEN 0
    ELSE LET i == CHOOSE x \in S : TRUE IN proc[i].sets + successful_sets(S \ {i})

\* C16: starting from an empty store, get_stats() reports as detections.total
\* the number of set_detection calls that have returned, whatever other
\* calls (clear_detection, log_*; failed calls of any kind) came between.
C16_RoundTripCount == get_stats_total(store) = successful_sets(DOMAIN proc)

C16_Witness ==
    /\ get_stats_total(store) = 2
    /\ calls_started(DOMAIN proc) = 3
    /\ get_detection(store) = {}

\* C17: whatever set_detection and clear_detection calls the processes
\* interleave, current_detection holds at most one row, and its id is 1.
C17_SingleCurrent ==
    /\ Cardinality(store.current_detection) <= 1
    /\ \A r \in store.current_detection : r.id = 1

C17_Witness ==
    /\ store.current_detection # {}
    /\ Len(store.detection_history) = 3
    /\ \E k \in 1..3 : store.detection_history[k].command # store.detection_history[1].command

\* C18: whenever the Current Detection row is present, its command,
\* confidence, method and timestamp are those of the detection_history row
\* with the greatest timestamp.
C18_CurrentReflectsLatest ==
    \A r \in get_detection(store) :
        \E h \in get_recent_detections(store) :
            /\ r.command = h.command /\ r.confidence = h.confidence
            /\ r.method = h.method /\ r.timestamp = h.timestamp

IsPrefix(a, b) == Len(a) <= Len(b) /\ SubSeq(b, 1, Len(a)) = a

AppendOnly ==
    /\ IsPrefix(store.detection_history, store'.detection_history)
    /\ IsPrefix(store.performance_metrics, store'.performance_metrics)
    /\ IsPrefix(store.matcher_performance, store'.matcher_performance)
    /\ IsPrefix(store.error_logs, store'.error_logs)
    /\ IsPrefix(store.model_corrections, store'.model_corrections)

\* C20: no store operation updates or deletes a row of detection_history,
\* performance_metrics, matcher_performance, error_logs or model_corrections:
\* across every step each of these tables keeps its rows, in order, and only
\* gains rows at its end; only the current_detection row is replaced or deleted.
C20_AppendOnlyHistory == [][AppendOnly]_vars

C20_Witness ==
    /\ Len(store.model_corrections) = 2
    /\ store.model_corrections[1] # store.model_corrections[2]
    /\ Len(store.detection_history) = 1
    /\ store.current_detection # {}

\* the detection_history rows this hook invocation has written
HookRows == HookStart..Len(store.detection_history)

\* C21: every Detection Record written for a turn carries the session
\* identifier of the invocation that produced it: querying detection_history
\* by that session_id returns the turn's record.
C21_SessionQueryReturnsTurn ==
    \A i \in HookRows : i \in query_detections_for_session(store, event_session_id)

\* the samples of a component that are below v, and those that are not above v
Below(component, v) ==
    Cardinality({i \in 1..Len(store.performance_metrics) :
        /\ store.performance_metrics[i].component = component
        /\ store.performance_metrics[i].latency_ms < v})

AtMost(component, v) ==
    Cardinality({i \in 1..Len(store.performance_metrics) :
        /\ store.performance_metrics[i].component = component
        /\ store.performance_metrics[i].latency_ms <= v})

\* v is the element at 0-based position i of the component's ascending series
AtRank(component, i, v) == Below(component, v) <= i /\ i < AtMost(component, v)

\* the size of the component's series
SeriesSize(component) ==
    Cardinality({i \in 1..Len(store.performance_metrics) :
        store.performance_metrics[i].component = component})

\* C22: for every component with a non-empty sample series of size n,
\* get_stats reports the elements of the ascending series at positions
\* floor(0.5n), floor(0.95n) and floor(0.99n), the three positions lie in
\* 0..n-1, and p50 <= p95 <= p99.
C22_Percentiles ==
    trace # <<>> =>
        \A component \in Components :
            LET n == SeriesSize(component) IN
            n > 0 =>
                /\ component \in DOMAIN trace[1]
                /\ trace[1][component].count = n
                /\ \A q \in {<<50, trace[1][component].p50>>,
                             <<95, trace[1][component].p95>>,
                             <<99, trace[1][component].p99>>} :
                       /\ (n * q[1]) \div 100 \in 0..(n - 1)
                       /\ AtRank(component, (n * q[1]) \div 100, q[2])
                /\ trace[1][component].p50 <= trace[1][component].p95
                /\ trace[1][component].p95 <= trace[1][component].p99

\* a series long enough for the three positions to differ, logged out of order
C22_Witness ==
    /\ trace # <<>>
    /\ "hook" \in DOMAIN trace[1] /\ "detector" \in DOMAIN trace[1]
    /\ trace[1]["hook"].count >= MaxSamples
    /\ trace[1]["hook"].p50 < trace[1]["hook"].p95
    /\ trace[1]["hook"].p95 < trace[1]["hook"].p99

\* every stored cost is the one its row's token counts give:
\* (prompt_tokens * 0.25 + completion_tokens * 1.25) / 1,000,000 USD
CostOfTokens ==
    \A k \in 1..Len(store.model_corrections) :
        store.model_corrections[k].total_cost_usd =
            store.model_corrections[k].prompt_tokens * 25
                + store.model_corrections[k].completion_tokens * 125

\* a step leaves every stored Correction Record as it was
CostFixed ==
    \A k \in 1..Len(store.model_corrections) :
        /\ k <= Len(store'.model_corrections)
        /\ store'.model_corrections[k] = store.model_corrections[k]

\* C23: the total_cost_usd log_correction stores is a function of the token
\* counts alone, (prompt_tokens * 0.25 + completion_tokens * 1.25) / 1,000,000,
\* fixed when the row is written: no later store operation changes it.
C23_CostFromTokens == [](CostOfTokens) /\ [][CostFixed]_vars

\* 1000 prompt and 500 completion tokens stored as 0.000875 USD, with calls of
\* other methods made on the same store
C23_Witness ==
    /\ Len(store.model_corrections) = 1
    /\ store.model_corrections[1].prompt_tokens = 1000
    /\ store.model_corrections[1].completion_tokens = 500
    /\ store.model_corrections[1].total_cost_usd = 87500
    /\ Len(store.detection_history) = 1
    /\ Len(store.error_logs) = 1

\* the text holds the tokens of u next to each other
Holds(text, u) ==
    \E i \in 0..(Len(text) - Len(u)) : \A k \in 1..Len(u) : text[i + k] = u[k]

\* the utterance matches an action-with-pronoun context pattern
ActionWithPronoun ==
    \/ \E p \in {"me", "us", "you", "them"} : Holds(prompt, <<"help", p>>)
    \/ \E v \in {"can", "could", "would", "will"} : Holds(prompt, <<v, "you", "help">>)
    \/ \E w \in TextTokens \ {"-"}, p \in {"with", "to", "for"} :
           Holds(prompt, <<"help", w, p>>)

\* C24: for an utterance that matches an action-with-pronoun context pattern
\* the lexical matcher never returns /ctx:help, even when a help keyword has
\* the highest score: it returns another intent or none.
C24_HelpExcluded ==
    (trace # <<>> /\ ActionWithPronoun) => trace[1].ret.command # "/ctx:help"

\* "help me research": the help keyword scores 1.0 and another intent is returned
C24_Witness ==
    /\ trace # <<>>
    /\ prompt = <<"help", "me", "research">>
    /\ trace[1].scores[1] = 100
    /\ trace[1].ret.command = "/ctx:research"

\* the pairs the scan does not skip
Scanned(excluded) ==
    {i \in 1..Len(KeywordPairs) : ~(KeywordPairs[i].command = "/ctx:help" /\ excluded)}

\* the best score among the pairs S (0.0 when there is none)
BestScore(S) ==
    IF S = {} THEN 0
    ELSE CHOOSE s \in {trace[1].scores[i] : i \in S} : \A i \in S : trace[1].scores[i] <= s

\* the first pair of S with score s
FirstWith(S, s) ==
    CHOOSE i \in S : trace[1].scores[i] = s /\ \A k \in S : trace[1].scores[k] = s => i <= k

\* C27: KeywordMatcherV2.match returns a match if and only if the best score
\* among the non-excluded (intent, keyword) pairs is at least 0.70; the
\* returned intent owns the highest score, the first pair in index order on
\* a tie, and the returned confidence is that score.
C27_LexicalBestMatch ==
    trace # <<>> =>
        LET S == Scanned(ActionWithPronoun)
            best == BestScore(S)
        IN /\ trace[1].ret # NoMatch <=> best >= 70
           /\ trace[1].ret # NoMatch =>
                 /\ trace[1].ret.command = KeywordPairs[FirstWith(S, best)].command
                 /\ trace[1].ret.confidence = best

\* two intents tie at 0.70 and the one that comes first in the index is returned
C27_Witness ==
    /\ trace # <<>>
    /\ ~ActionWithPronoun
    /\ trace[1].scores[2] = 70 /\ trace[1].scores[4] = 70
    /\ trace[1].scores[1] < 70 /\ trace[1].scores[3] < 70
    /\ trace[1].ret = IntentMatch("/ctx:help", 70, "fuzzy")

\* no intent_mappings.json or an unparseable one, and no usable markdown vocabulary
VocabularyMissing ==
    /\ det.base_dir.json \in {"missing", "unparseable"}
    /\ \A dir \in {"commands", "skills", "agents"} : det.base_dir[dir] # "usable"

\* C25: when the vocabulary source is missing or malformed (no
\* intent_mappings.json or unparseable JSON, and no usable markdown
\* vocabulary), constructing the lexical matcher does not fail and leaves the
\* minimal built-in index with /ctx:design and /ctx:research, never an empty one.
C25_VocabularyFallback ==
    (det.constructed /\ VocabularyMissing) =>
        /\ DOMAIN det.keyword_index # {}
        /\ det.keyword_index = MinimalIndex

\* the bank entries
BankEntries == DOMAIN trace[1].similarity

\* the maximum similarity over the bank
MaxSimilarity ==
    CHOOSE s \in {trace[1].similarity[i] : i \in BankEntries} :
        \A i \in BankEntries : trace[1].similarity[i] <= s

\* the earliest entry that attains it
FirstMax ==
    CHOOSE i \in BankEntries :
        /\ trace[1].similarity[i] = MaxSimilarity
        /\ \A k \in BankEntries : trace[1].similarity[k] = MaxSimilarity => i <= k

\* C26: with the backend loaded, match returns a match if and only if the
\* maximum cosine similarity over the bank entries is at least 0.5; intent
\* and evidence are those of the entry attaining the maximum, the earliest in
\* bank order on a tie, and the confidence equals the maximum.
C26_EmbeddingBestMatch ==
    (trace # <<>> /\ BankEntries # {}) =>
        /\ trace[1].result.ret # NoMatch <=> MaxSimilarity >= 50
        /\ trace[1].result.ret # NoMatch =>
              /\ trace[1].result.ret.command = IntentPatterns[FirstMax].command
              /\ trace[1].result.matched_patterns = <<IntentPatterns[FirstMax].pattern>>
              /\ trace[1].result.ret.confidence = MaxSimilarity

\* entries of two intents tie at the maximum and the earlier one is returned
C26_Witness ==
    /\ trace # <<>>
    /\ m2v.intent_embeddings = MaxBank
    /\ trace[1].similarity[1] = 49
    /\ trace[1].similarity[2] = 80 /\ trace[1].similarity[3] = 80
    /\ trace[1].result.ret = IntentMatch("/sc:analyze", 80, "model2vec")
    /\ trace[1].result.matched_patterns = <<"review the codebase">>

\* every row the hook has written has confidence at least 0.7
WrittenAboveCutoff ==
    /\ \A i \in HookRows : store.detection_history[i].confidence >= HOOK_CUTOFF
    /\ \A r \in store.current_detection :
           r.timestamp >= HookStart => r.confidence >= HOOK_CUTOFF

\* the hook has finished a turn whose cascade returned a match below 0.7
LowConfidenceTurn ==
    /\ pc = "done"
    /\ match.method \notin {"none", "raised"}
    /\ match.confidence < HOOK_CUTOFF

\* C28 as stated: every Detection Record and Current Detection row the hook
\* writes has confidence at least 0.7; when the cascade returns a match below
\* 0.7 the hook writes no Detection Record, the Current Detection is cleared,
\* the arbiter is not invoked and the response is a pass-through.
C28_Original ==
    /\ WrittenAboveCutoff
    /\ LowConfidenceTurn =>
          /\ HookRows = {}
          /\ get_detection(store) = {}
          /\ arb = "idle" /\ ~should_run_haiku
          /\ stdout = <<PassThrough>>

\* C28 as amended: the same, except that the Current Detection is cleared
\* only when the store takes the delete; when the store operation fails the
\* failure is swallowed and the store is left exactly as the turn found it.
C28_HookCutoff ==
    /\ WrittenAboveCutoff
    /\ LowConfidenceTurn =>
          /\ HookRows = {}
          /\ get_detection(store) = {} \/ store = store0
          /\ store \in {store0, clear_detection(store0)}
          /\ arb = "idle" /\ ~should_run_haiku
          /\ stdout = <<PassThrough>>

\* a match at 0.69 whose turn cleared the row an earlier turn had left
C28_Witness ==
    /\ LowConfidenceTurn
    /\ match.confidence = 69
    /\ get_detection(store0) # {}
    /\ get_detection(store) = {}
    /\ stdout = <<PassThrough>>

RECURSIVE Arbitrations(_)
Arbitrations(invocations) ==
    IF invocations = <<>> THEN 0
    ELSE Head(invocations).arbitrations + Arbitrations(Tail(invocations))

\* C29: a hook invocation whose prompt is the arbiter's own analysis prompt
\* (text beginning "You are a prompt enhancement assistant") is passed through
\* without running the cascade or the arbiter, so one user turn causes at most
\* one arbitration call and the chain of hook invocations arbitration
\* triggers ends at depth one.
C29_NoArbitrationRecursion ==
    /\ \A i \in DOMAIN proc :
           (proc[i].prompt # <<>> /\ Head(proc[i].prompt) = HaikuPrefix) =>
               /\ ~proc[i].cascade
               /\ proc[i].arbitrations = 0
               /\ proc[i].pc = "done" => proc[i].response = <<PassThrough>>
    /\ Arbitrations(proc) <= 1
    /\ Len(proc) <= 2

\* a turn that was arbitrated, whose analysis prompt came back to the hook and
\* was passed through
C29_Witness ==
    /\ Len(proc) = 2
    /\ proc[1].pc = "done" /\ proc[1].arbitrations = 1
    /\ proc[2].prompt = analysis_prompt(proc[1].prompt)
    /\ proc[2].pc = "done" /\ proc[2].response = <<PassThrough>>

\* the Correction Records this hook invocation has written
HookCorrections == (corr0 + 1)..Len(store.model_corrections)

\* C30: in every Correction Record the hook writes, correction_accepted is
\* true if and only if corrected_command differs from original_command.
C30_CorrectionFlagConsistent ==
    \A k \in HookCorrections :
        store.model_corrections[k].correction_accepted
            <=> (store.model_corrections[k].corrected_command
                    # store.model_corrections[k].original_command)

====
